---- MODULE Spec2Model ----
(***************************************************************************)
(* State-machine model of the VeGAS pipeline scripts.                      *)
(*   src/src/scripts/assembly.py     reference selection + consensus build *)
(*   src/src/scripts/host_removal.py iterative host depletion              *)
(* Each script is one sequential process; its suspension points are the    *)
(* external tool invocations, so there is one action per invocation (with  *)
(* all the bookkeeping the script does around it).                         *)
(***************************************************************************)
EXTENDS Integers, Sequences, FiniteSets, TLC

\* ------------------------------------------------------------------ bounds
MaxRefs == 3
MaxRate == 2
MaxHosts == 2
MaxReads == 2
MaxSize == 2
MaxCode == 2

VARIABLES
    \* ---- assembly.py
    pc,            \* position of main(): args, select, realign, ..., done, failed, usage
    references,    \* args.references, in the supplied order
    ref_i,         \* 1-based position of the for loop over args.references
    best_ref,      \* best_ref (0 models None)
    best_rate,     \* best_rate
    scored,        \* the alignment_rate computed for each candidate so far (line 59)
    tmp_exists,    \* whether tmp_dir exists on disk
    tmp_files,     \* files under tmp_dir
    assembly_dir,  \* the artifacts present in {folder}/assembly for this sample
    cmds,          \* the shell commands run_cmd has been given, in order
    tool_fail,     \* index in cmds of the first command with a process that exited nonzero, 0 if none
    exit_code,     \* exit status of the script, -1 while running
    reads_present, \* whether the files args.r1 and args.r2 exist
    unmarked,      \* positions of the candidates whose log had no rate line
    statuses,      \* r.returncode of each command of cmds, as run_cmd saw it
    \* ---- host_removal.py
    dpc,           \* position of main(): start, loop, gzip, done
    host_indexes,  \* the list iterated by the for loop (line 37)
    host_i,        \* 1-based position of the for loop over host_indexes
    orig_reads,    \* read pairs in the input a.r1 / a.r2
    curr_r1,       \* curr_r1 file: [reads, round] (round 0: the copy of the input)
    curr_r2,       \* curr_r2 file: [reads, round]
    total_removed, \* total_removed
    summary,       \* host lines of removal_summary.txt, in file order
    stderr,        \* res.stderr of the latest aligner run (also the stats file)
    work_exists,   \* whether the TemporaryDirectory exists
    out_r1,        \* the compressed output for R1: [written, reads, arg_gz, gz_added]
    out_r2,        \* the compressed output for R2: [written, reads, arg_gz, gz_added]
    invoked,       \* hosts the aligner has been invoked against, in order
    nonzero_at,    \* round of the first aligner run that exited nonzero, 0 if none
    missing_at,    \* first round after which u1 and u2 were not both present, 0 if none
    dexit,         \* exit status of the script, -1 while running
    inputs_present,\* whether the files a.r1 and a.r2 exist
    raised_in,     \* the step an uncaught exception came from, "none" if none
    summary_opens, \* how often removal_summary.txt was opened with mode "w"
    unmapped,      \* mates (1, 2) whose unmapped file the latest aligner run left
    \* ---- the external processes of one run of either script
    script,        \* the script that runs: "assembly", "host_removal" ("none": not studied)
    todo,          \* the commands main() has still to issue, each a sequence of tools
    current,       \* the command subprocess.run is waiting for, <<>> if none
    running,       \* the tool processes alive: <<number of the invocation, stage>>
    exited,        \* <<stage, status>> of the ended processes of the current command
    issued,        \* number of invocations started so far
    \* ---- two runs of the candidate loop on one input
    sel_in,        \* [refs, rate]: args.references and the rate the aligner gives each prefix
    sel_run,       \* per run: [order, i, best_ref, best_rate]
    \* ---- one request to each of the two range servers
    size,          \* st_size of the requested file
    range_header,  \* the Range header: [present, unit, dash, start_s, end_s]
    rhs_response,  \* what range_http_server.py sent: [status, start, end, length]
    sr_response,   \* what serve_range.py sent: [status, start, end, length]
    sr_written,    \* bytes serve_range.py's copyfile wrote, -1 before it ran
    \* ---- main.py
    mpc,           \* position of main(): args, validate, prepare, unlock, run, done
    margs,         \* the directories given: [data, output, reference, host]
    out_created,   \* whether os.makedirs(output_dir) was called
    copied,        \* whether copy_files was called
    spawned,       \* the subprocesses started, in order
    unlock_result, \* [raised, code] of the unlock command
    run_result,    \* [raised, code] of the workflow run
    mexit          \* exit status of the driver, -1 while running

asmVars == <<pc, references, ref_i, best_ref, best_rate, scored, tmp_exists,
             tmp_files, assembly_dir, cmds, tool_fail, exit_code,
             reads_present, unmarked, statuses>>
depVars == <<dpc, host_indexes, host_i, orig_reads, curr_r1, curr_r2,
             total_removed, summary, stderr, work_exists, out_r1, out_r2,
             invoked, nonzero_at, missing_at, dexit, inputs_present,
             raised_in, summary_opens, unmapped>>
procVars == <<script, todo, current, running, exited, issued>>
selVars == <<sel_in, sel_run>>
rangeVars == <<size, range_header, rhs_response, sr_response, sr_written>>
mainVars == <<mpc, margs, out_created, copied, spawned, unlock_result,
              run_result, mexit>>
vars == <<asmVars, depVars, procVars, selVars, rangeVars, mainVars>>

\* what a step of one part of the model leaves alone
outsideAsm == <<depVars, procVars, selVars, rangeVars, mainVars>>
outsideDep == <<asmVars, procVars, selVars, rangeVars, mainVars>>
outsideProc == <<asmVars, depVars, selVars, rangeVars, mainVars>>
outsideSel == <<asmVars, depVars, procVars, rangeVars, mainVars>>
outsideRange == <<asmVars, depVars, procVars, selVars, mainVars>>
outsideMain == <<asmVars, depVars, procVars, selVars, rangeVars>>

\* process exit statuses an external tool can end with
ExitCodes == {0, 1}

\* ======================================================================
\* assembly.py
\* ======================================================================

\* What a candidate's bowtie2 log can hold: no "overall alignment rate" line,
\* such a line with the percentage leading it ("72.30% overall alignment
\* rate"), or such a line where other text precedes the percentage.
AlignerLogs ==
    {[marker |-> FALSE, leading |-> FALSE, rate |-> 0]}
    \cup {[marker |-> TRUE, leading |-> TRUE, rate |-> r] : r \in 0..MaxRate}
    \cup {[marker |-> TRUE, leading |-> FALSE, rate |-> MaxRate]}

RateParsesOnlyMarked(log) == log.marker /\ log.leading

\* float(line.split("%")[0].strip()) is a number only when nothing but the
\* number stands before the first "%".
RateParses(log) == ~log.marker \/ log.leading

ParseRate(log) == IF log.marker THEN log.rate ELSE 0

\* A candidate as given on the command line: an index prefix, written with or
\* without the ".1.bt2" of its first index file.
Candidates(n) ==
    {c \in [1..n -> [prefix : 1..n, bt2 : BOOLEAN]] : \A k \in 1..n : c[k].prefix = k}

\* ref_prefix.replace(".1.bt2", "")
StripBt2(ref) == ref.prefix

\* bowtie2 cannot succeed on read files that do not exist.
AlignerExits(present) == IF present THEN ExitCodes ELSE ExitCodes \ {0}

FailedNever(returncode) == FALSE

\* run_cmd: if r.returncode != 0: raise
Failed(returncode) == returncode # 0

BetterAboveZero(alignment_rate, rate) == alignment_rate > rate /\ alignment_rate > 0

BetterOrEqual(alignment_rate, rate) == alignment_rate >= rate

Better(alignment_rate, rate) == alignment_rate > rate

InitAsmVars ==
    /\ pc = "args"
    /\ references \in UNION {Candidates(n) : n \in 0..MaxRefs}
    /\ reads_present \in BOOLEAN
    /\ unmarked = {}
    /\ statuses = <<>>
    /\ ref_i = 0
    /\ best_ref = 0
    /\ best_rate = -1
    /\ scored = <<>>
    /\ tmp_exists = FALSE
    /\ tmp_files = {}
    /\ assembly_dir = {}
    /\ cmds = <<>>
    /\ tool_fail = 0
    /\ exit_code = -1

\* assembly.py not running (the state of its variables while the other script is
\* the one under study).
InitAsmIdle ==
    /\ pc = "idle"
    /\ references = <<>>
    /\ reads_present = TRUE
    /\ unmarked = {}
    /\ statuses = <<>>
    /\ ref_i = 0
    /\ best_ref = 0
    /\ best_rate = -1
    /\ scored = <<>>
    /\ tmp_exists = FALSE
    /\ tmp_files = {}
    /\ assembly_dir = {}
    /\ cmds = <<>>
    /\ tool_fail = 0
    /\ exit_code = -1

\* No process model and no pair of selection runs (the state of their
\* variables while a script is studied step by step).
InitProcIdle ==
    /\ script = "none"
    /\ todo = <<>>
    /\ current = <<>>
    /\ running = {}
    /\ exited = {}
    /\ issued = 0

InitSelIdle ==
    /\ sel_in = [refs |-> <<>>, rate |-> <<>>]
    /\ sel_run = <<>>

\* No response sent yet.
NoResponse == [status |-> 0, start |-> 0, end |-> 0, length |-> 0]

\* No request to the range servers.
InitRangeIdle ==
    /\ size = 0
    /\ range_header = [present |-> FALSE, unit |-> "bytes", dash |-> FALSE,
                       start_s |-> -1, end_s |-> -1]
    /\ rhs_response = NoResponse
    /\ sr_response = NoResponse
    /\ sr_written = -1

\* No subprocess result yet.
NoResult == [raised |-> FALSE, code |-> 0]

\* main.py not running.
InitMainIdle ==
    /\ mpc = "idle"
    /\ margs = [data |-> "ok", output |-> "exists", reference |-> "ok", host |-> "ok"]
    /\ out_created = FALSE
    /\ copied = FALSE
    /\ spawned = <<>>
    /\ unlock_result = NoResult
    /\ run_result = NoResult
    /\ mexit = -1

\* The parts of the model that are not the two pipeline scripts, at rest.
InitOthersIdle == InitProcIdle /\ InitSelIdle /\ InitRangeIdle /\ InitMainIdle

\* argparse (nargs='+') rejects an empty --references before anything is
\* created; otherwise the output folder and the scratch directory are made.
AsmParseArgs ==
    /\ pc = "args"
    /\ IF Len(references) = 0
       THEN /\ pc' = "usage"
            /\ exit_code' = 2
            /\ UNCHANGED <<ref_i, tmp_exists>>
       ELSE /\ pc' = "select"
            /\ ref_i' = 1
            /\ tmp_exists' = TRUE
            /\ UNCHANGED exit_code
    /\ UNCHANGED <<references, best_ref, best_rate, scored, tmp_files,
                   assembly_dir, cmds, tool_fail, reads_present, unmarked,
                   statuses>>
    /\ UNCHANGED outsideAsm

\* The failing step is left to be taken again.
RaiseAndRetry(files) ==
    /\ tmp_files' = files
    /\ UNCHANGED <<pc, exit_code, tmp_exists>>

RaiseNoFinally(files) ==
    /\ pc' = "failed"
    /\ exit_code' = 1
    /\ tmp_files' = files
    /\ UNCHANGED tmp_exists

\* An exception leaves the try block: the finally clause removes tmp_dir and
\* the script ends with a traceback (status 1).
Raise(files) ==
    /\ pc' = "failed"
    /\ exit_code' = 1
    /\ tmp_exists' = FALSE
    /\ tmp_files' = {}

\* Bookkeeping of the model: remember the first command one of whose
\* processes exited nonzero.
NoteExit(codes) ==
    tool_fail' = IF tool_fail = 0 /\ (\E c \in codes : c # 0)
                 THEN Len(cmds) + 1
                 ELSE tool_fail

\* One iteration of the candidate loop: align, read the rate, keep the best.
AsmScore ==
    /\ pc = "select"
    /\ \E rc \in AlignerExits(reads_present), log \in AlignerLogs :
         LET ref_prefix == StripBt2(references[ref_i])
             files == tmp_files \cup {<<"sam", ref_prefix>>, <<"log", ref_prefix>>}
             alignment_rate == ParseRate(log)
         IN  /\ cmds' = Append(cmds, "bowtie2_score")
             /\ statuses' = Append(statuses, rc)
             /\ unmarked' = IF rc = 0 /\ ~log.marker
                            THEN unmarked \cup {ref_i} ELSE unmarked
             /\ NoteExit({rc})
             /\ IF Failed(rc)
                THEN /\ Raise(files)
                     /\ UNCHANGED <<ref_i, best_ref, best_rate, scored>>
                ELSE IF ~RateParses(log)
                THEN /\ Raise(files)
                     /\ UNCHANGED <<ref_i, best_ref, best_rate, scored>>
                ELSE /\ scored' = Append(scored, alignment_rate)
                     /\ IF Better(alignment_rate, best_rate)
                        THEN best_rate' = alignment_rate /\ best_ref' = ref_prefix
                        ELSE UNCHANGED <<best_rate, best_ref>>
                     /\ ref_i' = ref_i + 1
                     /\ pc' = IF ref_i = Len(references) THEN "realign" ELSE "select"
                     /\ tmp_files' = files
                     /\ UNCHANGED <<tmp_exists, exit_code>>
    /\ UNCHANGED <<references, assembly_dir, reads_present>>
    /\ UNCHANGED outsideAsm

\* A fixed-name file of the scratch directory (the per-candidate files carry
\* the candidate instead of 0).
ScratchFile(name) == <<name, 0>>

\* The command is run and main() goes on whatever its status.
RunCmdUnchecked(cmd, returncode, files, next) ==
    /\ cmds' = Append(cmds, cmd)
    /\ statuses' = Append(statuses, returncode)
    /\ pc' = next
    /\ tmp_files' = files
    /\ UNCHANGED <<tmp_exists, exit_code>>

\* run_cmd: the command is handed to the shell; a nonzero status of the shell
\* raises RuntimeError, otherwise main() goes on to the next step.
RunCmd(cmd, returncode, files, next) ==
    /\ cmds' = Append(cmds, cmd)
    /\ statuses' = Append(statuses, returncode)
    /\ IF Failed(returncode)
       THEN Raise(files)
       ELSE /\ pc' = next
            /\ tmp_files' = files
            /\ UNCHANGED <<tmp_exists, exit_code>>

\* subprocess.run(cmd, shell=True): /bin/sh reports the status of the last
\* command of a pipeline (no pipefail is set).
ShellPipeStatus(first_rc, last_rc) == last_rc

asmLoopVars == <<references, ref_i, best_ref, best_rate, scored,
                 reads_present, unmarked>>

AsmRealign ==
    /\ pc = "realign"
    /\ \E rc \in ExitCodes :
         /\ NoteExit({rc})
         /\ RunCmd("bowtie2", rc, tmp_files \cup {ScratchFile("best_alignment.sam")}, "view")
    /\ UNCHANGED <<asmLoopVars, assembly_dir>>
    /\ UNCHANGED outsideAsm

\* "samtools view ... > final_bam": the shell creates the redirect target
\* whatever samtools does.
AsmView ==
    /\ pc = "view"
    /\ \E rc \in ExitCodes :
         /\ NoteExit({rc})
         /\ RunCmd("samtools view", rc, tmp_files \cup {ScratchFile("best_alignment.bam")}, "sort")
    /\ UNCHANGED <<asmLoopVars, assembly_dir>>
    /\ UNCHANGED outsideAsm

AsmSort ==
    /\ pc = "sort"
    /\ \E rc \in ExitCodes :
         /\ NoteExit({rc})
         /\ RunCmd("samtools sort", rc,
                   IF rc = 0 THEN tmp_files \cup {ScratchFile("best_alignment.sorted.bam")} ELSE tmp_files,
                   "index")
    /\ UNCHANGED <<asmLoopVars, assembly_dir>>
    /\ UNCHANGED outsideAsm

AsmIndex ==
    /\ pc = "index"
    /\ \E rc \in ExitCodes :
         /\ NoteExit({rc})
         /\ RunCmd("samtools index", rc,
                   IF rc = 0 THEN tmp_files \cup {ScratchFile("best_alignment.sorted.bam.bai")} ELSE tmp_files,
                   "mpileup")
    /\ UNCHANGED <<asmLoopVars, assembly_dir>>
    /\ UNCHANGED outsideAsm

\* "bcftools mpileup ... | bcftools call ...": two processes, one run_cmd.
AsmPileupCall ==
    /\ pc = "mpileup"
    /\ \E mpileup_rc \in ExitCodes, call_rc \in ExitCodes :
         /\ NoteExit({mpileup_rc, call_rc})
         /\ RunCmd("bcftools mpileup | bcftools call",
                   ShellPipeStatus(mpileup_rc, call_rc),
                   IF call_rc = 0 THEN tmp_files \cup {ScratchFile("variants.vcf.gz")} ELSE tmp_files,
                   "bcf_index")
    /\ UNCHANGED <<asmLoopVars, assembly_dir>>
    /\ UNCHANGED outsideAsm

AsmIndexVcf ==
    /\ pc = "bcf_index"
    /\ \E rc \in ExitCodes :
         /\ NoteExit({rc})
         /\ RunCmd("bcftools index", rc,
                   IF rc = 0 THEN tmp_files \cup {ScratchFile("variants.vcf.gz.csi")} ELSE tmp_files,
                   "consensus")
    /\ UNCHANGED <<asmLoopVars, assembly_dir>>
    /\ UNCHANGED outsideAsm

\* "bcftools consensus ... > final_consensus_path": the redirect target lies in
\* assembly_dir and is created by the shell before bcftools runs.
AsmConsensus ==
    /\ pc = "consensus"
    /\ \E rc \in ExitCodes :
         /\ NoteExit({rc})
         /\ RunCmd("bcftools consensus", rc, tmp_files, "copy_bam")
    /\ assembly_dir' = assembly_dir \cup {"fasta"}
    /\ UNCHANGED asmLoopVars
    /\ UNCHANGED outsideAsm

\* shutil.copyfile(final_bam_sorted, final_bam_path); it raises OSError when
\* the copy cannot be made.
AsmCopyBam ==
    /\ pc = "copy_bam"
    /\ \E ok \in BOOLEAN :
         IF ok
         THEN /\ assembly_dir' = assembly_dir \cup {"bam"}
              /\ pc' = "copy_bai"
              /\ UNCHANGED <<tmp_exists, tmp_files, exit_code>>
         ELSE /\ Raise(tmp_files)
              /\ UNCHANGED assembly_dir
    /\ UNCHANGED <<asmLoopVars, cmds, tool_fail, statuses>>
    /\ UNCHANGED outsideAsm

\* shutil.copyfile of the index, the final prints, then the finally clause.
AsmCopyBai ==
    /\ pc = "copy_bai"
    /\ \E ok \in BOOLEAN :
         IF ok
         THEN /\ assembly_dir' = assembly_dir \cup {"bai"}
              /\ pc' = "done"
              /\ exit_code' = 0
              /\ tmp_exists' = FALSE
              /\ tmp_files' = {}
         ELSE /\ Raise(tmp_files)
              /\ UNCHANGED assembly_dir
    /\ UNCHANGED <<asmLoopVars, cmds, tool_fail, statuses>>
    /\ UNCHANGED outsideAsm

\* ======================================================================
\* host_removal.py
\* ======================================================================

\* No file at either place an output can be written to.
NoOutput == [written |-> FALSE, reads |-> 0, arg_gz |-> FALSE, gz_added |-> FALSE]

InitDepIdle ==
    /\ dpc = "idle"
    /\ host_indexes = <<>>
    /\ host_i = 0
    /\ orig_reads = 0
    /\ curr_r1 = [reads |-> 0, round |-> 0]
    /\ curr_r2 = [reads |-> 0, round |-> 0]
    /\ total_removed = 0
    /\ summary = <<>>
    /\ stderr = <<>>
    /\ work_exists = FALSE
    /\ out_r1 = NoOutput
    /\ out_r2 = NoOutput
    /\ invoked = <<>>
    /\ nonzero_at = 0
    /\ missing_at = 0
    /\ dexit = -1
    /\ inputs_present = TRUE
    /\ raised_in = "none"
    /\ summary_opens = 0
    /\ unmapped = {}

\* The marker phrases the parser looks for, by the branch that tests them:
\*   "exact"  "aligned exactly 1 time"      "multi"  "aligned >1 times"
\*   "paired" "paired; of these:"           "conc0"  "aligned concordantly 0 times"
\* A report line is [marks, tok]: the marker phrases its text contains and
\* the number that is its first whitespace-separated token.
Line(mark, tok) == [marks |-> {mark}, tok |-> tok]

\* The aligner's report for a run on n pairs of which k stay unaligned, e
\* align exactly once and the rest more than once; only the lines named in
\* present are there (a cut or foreign stderr lacks some or all of them).
Report(n, k, e, present) ==
    LET full == << Line("paired", n), Line("conc0", k),
                   Line("exact", e), Line("multi", n - k - e) >>
    IN  SelectSeq(full, LAMBDA l : l.marks \subseteq present)

Markers == {"paired", "conc0", "exact", "multi"}

\* Which lines of the report reach stderr: each of the two count lines the
\* removal is computed from may be missing; the two lines that are only
\* printed ("paired", "conc0") are there together or not at all.
ReportCuts ==
    {c \cup h : c \in SUBSET {"exact", "multi"}, h \in {{}, {"paired", "conc0"}}}

\* The loop over res.stderr.splitlines(): an if/elif chain per line, a later
\* matching line overwriting an earlier one.
RECURSIVE ParseFrom(_, _)
ParseFrom(lines, acc) ==
    IF lines = <<>> THEN acc
    ELSE LET line == Head(lines)
             nxt == IF "exact" \in line.marks THEN [acc EXCEPT !.exact = line.tok]
                    ELSE IF "multi" \in line.marks THEN [acc EXCEPT !.multi = line.tok]
                    ELSE IF "paired" \in line.marks THEN [acc EXCEPT !.total = line.tok]
                    ELSE IF "conc0" \in line.marks THEN [acc EXCEPT !.unaligned = line.tok]
                    ELSE acc
         IN  ParseFrom(Tail(lines), nxt)

\* exact = multi = unaligned = total = 0, then the loop.
ParseReport(lines) ==
    ParseFrom(lines, [exact |-> 0, multi |-> 0, unaligned |-> 0, total |-> 0])

RemovedOnlyExact(rep) == rep.exact

\* removed = exact + multi
Removed(rep) == rep.exact + rep.multi

\* The orders in which a list built from a set can come out.
Orders(S) ==
    {o \in [1..Cardinality(S) -> S] : \A a, b \in 1..Cardinality(S) : a # b => o[a] # o[b]}

\* sorted(glob("host_indexes/*.1.bt2")) for a directory holding the indexes of
\* hosts 1..nh: each host has h.1.bt2 and h.rev.1.bt2, and both match.
GlobHostIndexes(nh) ==
    [j \in 1..(2 * nh) |-> [host |-> (j + 1) \div 2, rev |-> (j % 2 = 0)]]

\* f.replace(".1.bt2", "").replace(".rev", "")
StripIndexSuffix(f) == f.host

\* list(set(host_indexes)): the duplicates go, and so does the order; a set of
\* str iterates in an order that varies with the process's hash seed.
HostLists(nh) ==
    LET globbed == GlobHostIndexes(nh)
        stripped == [j \in DOMAIN globbed |-> StripIndexSuffix(globbed[j])]
    IN  Orders({stripped[j] : j \in DOMAIN stripped})

InitDep ==
    /\ dpc = "start"
    /\ host_indexes \in UNION {HostLists(nh) : nh \in 0..MaxHosts}
    /\ host_i = 0
    /\ orig_reads = MaxReads
    /\ curr_r1 = [reads |-> 0, round |-> 0]
    /\ curr_r2 = [reads |-> 0, round |-> 0]
    /\ total_removed = 0
    /\ summary = <<>>
    /\ stderr = <<>>
    /\ work_exists = FALSE
    /\ out_r1 = NoOutput
    /\ out_r2 = NoOutput
    /\ invoked = <<>>
    /\ nonzero_at = 0
    /\ missing_at = 0
    /\ dexit = -1
    /\ inputs_present \in BOOLEAN
    /\ raised_in = "none"
    /\ summary_opens = 0
    /\ unmapped = {}
    /\ InitAsmIdle
    /\ InitOthersIdle

\* An exception nothing catches leaves the with block of line 31, whose
\* exit keeps the work directory.
DepRaiseKeepsWork(where) ==
    /\ raised_in' = where
    /\ dpc' = "failed"
    /\ dexit' = 1
    /\ UNCHANGED work_exists

\* An exception nothing catches: it leaves the with block of line 31, whose
\* exit removes the work directory, and ends the script with a traceback.
DepRaise(where) ==
    /\ raised_in' = where
    /\ dpc' = "failed"
    /\ dexit' = 1
    /\ work_exists' = FALSE

\* open(summary_path, "w") and the header line: whatever the file held goes.
CreateSummary(s) == <<>>

\* shutil.copyfile(a.r1, curr_r1): a new file in the work directory with the
\* content of the input (round 0).
CopyOfInput(reads) == [reads |-> reads, round |-> 0]

\* Lines 19-35: the summary file is created with its header, the work
\* directory is made and the input pair is copied into it; the copy raises
\* when an input file does not exist.
DepStart ==
    /\ dpc = "start"
    /\ summary' = CreateSummary(summary)
    /\ summary_opens' = summary_opens + 1
    /\ total_removed' = 0
    /\ IF inputs_present
       THEN /\ work_exists' = TRUE
            /\ curr_r1' = CopyOfInput(orig_reads)
            /\ curr_r2' = CopyOfInput(orig_reads)
            /\ host_i' = 1
            /\ dpc' = IF Len(host_indexes) = 0 THEN "gzip" ELSE "loop"
            /\ UNCHANGED <<dexit, raised_in>>
       ELSE /\ DepRaise("copy")
            /\ UNCHANGED <<curr_r1, curr_r2, host_i>>
    /\ UNCHANGED <<host_indexes, orig_reads, stderr, out_r1, out_r2, invoked,
                   nonzero_at, missing_at, inputs_present, unmapped>>
    /\ UNCHANGED outsideDep

\* What follows the aligner run when the loop goes on after a missing
\* unmapped file instead of leaving.
AfterMissingNoBreak ==
    /\ UNCHANGED <<curr_r1, curr_r2>>
    /\ host_i' = host_i + 1
    /\ dpc' = IF host_i = Len(host_indexes) THEN "gzip" ELSE "loop"

\* Lines 83-85: open(curr, "a").close() leaves an existing file as it is
\* (curr_r1 and curr_r2 exist since line 34), then break.
AfterMissing ==
    /\ UNCHANGED <<curr_r1, curr_r2, host_i>>
    /\ dpc' = "gzip"

\* The summary file when a round that leaves the loop is not logged.
AppendUnlessBreaking(s, entry) ==
    IF missing_at' # missing_at THEN s ELSE Append(s, entry)

\* The summary file after a write that starts it over with the one entry.
RewriteSummary(s, entry) == <<entry>>

\* Lines 74-75: open(summary_path, "a") and one line "{base}\t{removed}".
AppendSummary(s, entry) == Append(s, entry)

\* The report parsed on top of what the previous report gave.
ParseCarried(lines) == ParseFrom(lines, ParseReport(stderr))

\* The counters of a round, from its report (lines 59-68).
RoundCounters(lines) == ParseReport(lines)

EitherExists(u1, u2) == u1 \/ u2

\* Line 79: os.path.exists(u1) and os.path.exists(u2)
BothExist(u1, u2) == u1 /\ u2

\* The current file when the move of the unmapped file is left out.
KeptPair(k, round) == curr_r1

\* shutil.move(u, curr): the current file is the unmapped output (k pairs) of
\* this round.
MovedPair(k, round) == [reads |-> k, round |-> round]

\* One iteration of the host loop: run the aligner on the current pair, parse
\* its report, log the round, and take over the unmapped pair or break.  The
\* moves of lines 80-81 can raise (moved = FALSE).
DepRound ==
    /\ dpc = "loop"
    /\ LET base == host_indexes[host_i]
           n == curr_r1.reads
       IN  \E rc \in ExitCodes, k \in 0..n, u1 \in BOOLEAN, u2 \in BOOLEAN,
              present \in ReportCuts, moved \in BOOLEAN :
             \E e \in 0..(n - k) :
               LET res_stderr == Report(n, k, e, present)
                   rep == RoundCounters(res_stderr)
                   removed == Removed(rep)
               IN  /\ invoked' = Append(invoked, base)
                   /\ nonzero_at' = IF nonzero_at = 0 /\ rc # 0 THEN host_i ELSE nonzero_at
                   /\ missing_at' = IF missing_at = 0 /\ ~(u1 /\ u2)
                                    THEN host_i ELSE missing_at
                   /\ stderr' = res_stderr
                   /\ total_removed' = total_removed + removed
                   /\ summary' = AppendSummary(summary, <<base, removed>>)
                   /\ unmapped' = {m \in {1, 2} : (m = 1 /\ u1) \/ (m = 2 /\ u2)}
                   /\ IF BothExist(u1, u2)
                      THEN IF moved
                           THEN /\ curr_r1' = MovedPair(k, host_i)
                                /\ curr_r2' = MovedPair(k, host_i)
                                /\ host_i' = host_i + 1
                                /\ dpc' = IF host_i = Len(host_indexes) THEN "gzip" ELSE "loop"
                                /\ UNCHANGED <<work_exists, dexit, raised_in>>
                           ELSE /\ DepRaise("move")
                                /\ UNCHANGED <<curr_r1, curr_r2, host_i>>
                      ELSE /\ moved
                           /\ AfterMissing
                           /\ UNCHANGED <<work_exists, dexit, raised_in>>
    /\ UNCHANGED <<host_indexes, orig_reads, out_r1, out_r2, inputs_present,
                   summary_opens>>
    /\ UNCHANGED outsideDep

\* An iteration that an exception ends before the round is logged: line 55
\* raises when the aligner cannot be started ("run"), lines 62-68 raise when
\* a marked line does not begin with a number ("parse").
DepRoundRaises ==
    /\ dpc = "loop"
    /\ \E where \in {"run", "parse"} :
         /\ invoked' = IF where = "run" THEN invoked
                       ELSE Append(invoked, host_indexes[host_i])
         /\ DepRaise(where)
    /\ UNCHANGED <<host_indexes, host_i, orig_reads, curr_r1, curr_r2,
                   total_removed, summary, stderr, out_r1, out_r2, nonzero_at,
                   missing_at, inputs_present, summary_opens, unmapped>>
    /\ UNCHANGED outsideDep

GzAddedAlways(ends_gz) == TRUE

\* Lines 87-88: dst is the argument when it ends with ".gz", otherwise the
\* argument with ".gz" added.
GzAdded(ends_gz) == ~ends_gz

\* gzip_out(src, dst) for an output argument that ends with ".gz" (arg_gz) or
\* does not: the file written, and whether it lies at the argument with
\* ".gz" added instead of at the argument.
GzipOut(src, arg_gz) ==
    [written |-> TRUE, reads |-> src.reads, arg_gz |-> arg_gz,
     gz_added |-> GzAdded(arg_gz)]

\* Lines 87-92: both current files are compressed to their destinations, the
\* work directory goes with the end of the with block, and main() returns.
\* a.out_r1 and a.out_r2 are read here for the first time.
DepFinish ==
    /\ dpc = "gzip"
    /\ \E r1_gz \in BOOLEAN, r2_gz \in BOOLEAN :
         /\ out_r1' = GzipOut(curr_r1, r1_gz)
         /\ out_r2' = GzipOut(curr_r2, r2_gz)
    /\ work_exists' = FALSE
    /\ dexit' = 0
    /\ dpc' = "done"
    /\ UNCHANGED <<host_indexes, host_i, orig_reads, curr_r1, curr_r2,
                   total_removed, summary, stderr, invoked, nonzero_at,
                   missing_at, inputs_present, raised_in, summary_opens,
                   unmapped>>
    /\ UNCHANGED outsideDep

\* Lines 87-88 when gzip_out raises (the destination cannot be written): in
\* the first call nothing is written, in the second R1 is already there.
DepFinishRaises ==
    /\ dpc = "gzip"
    /\ \E call \in {1, 2}, r1_gz \in BOOLEAN :
         out_r1' = IF call = 2 THEN GzipOut(curr_r1, r1_gz) ELSE out_r1
    /\ DepRaise("gzip")
    /\ UNCHANGED <<host_indexes, host_i, orig_reads, curr_r1, curr_r2,
                   total_removed, summary, stderr, out_r2, invoked, nonzero_at,
                   missing_at, inputs_present, summary_opens, unmapped>>
    /\ UNCHANGED outsideDep

\* ======================================================================
\* The external processes of one run
\* ======================================================================

\* mpileup_cmd | call_cmd: one shell command, two tools.
PipeCmd == <<"bcftools mpileup", "bcftools call">>

\* The commands main() of assembly.py hands to run_cmd for n candidates, in
\* program order: one scoring alignment per candidate, then the build.
AssemblyCommands(n) ==
    [k \in 1..n |-> <<"bowtie2">>] \o
    << <<"bowtie2">>, <<"samtools view">>, <<"samtools sort">>,
       <<"samtools index">>, PipeCmd, <<"bcftools index">>,
       <<"bcftools consensus">> >>

\* The commands main() of host_removal.py runs for nh hosts: one alignment
\* per round.
DepletionCommands(nh) == [k \in 1..nh |-> <<"bowtie2">>]

InitProc ==
    /\ script \in {"assembly", "host_removal"}
    /\ todo \in IF script = "assembly"
                THEN {AssemblyCommands(n) : n \in 1..MaxRefs}
                ELSE {DepletionCommands(nh) : nh \in 1..MaxHosts}
    /\ current = <<>>
    /\ running = {}
    /\ exited = {}
    /\ issued = 0

BlockedNever(cmd) == FALSE

\* subprocess.run does not return before the command has ended: while a
\* command is waited for, main() is not executing.
Blocked(cmd) == cmd # <<>>

\* subprocess.run(cmd, ...): the processes of the next command start (the
\* tools of a pipeline all at once) and the script waits.
ProcSpawn ==
    /\ ~Blocked(current)
    /\ todo # <<>>
    /\ current' = Head(todo)
    /\ todo' = Tail(todo)
    /\ issued' = issued + 1
    /\ running' = running \cup {<<issued + 1, stage>> : stage \in 1..Len(Head(todo))}
    /\ exited' = {}
    /\ UNCHANGED script
    /\ UNCHANGED outsideProc

\* A tool process ends with some status.
ProcExit ==
    /\ \E p \in running, status \in ExitCodes :
         /\ running' = running \ {p}
         /\ exited' = IF p[1] = issued THEN exited \cup {<<p[2], status>>} ELSE exited
    /\ UNCHANGED <<script, todo, current, issued>>
    /\ UNCHANGED outsideProc

\* subprocess.run returns once every process of the command has ended.
\* run_cmd raises on a nonzero status of the shell, which ends assembly.py;
\* host_removal.py goes on, or leaves its loop (break, exception).
ProcReturn ==
    /\ current # <<>>
    /\ \A stage \in 1..Len(current) : \E status \in ExitCodes : <<stage, status>> \in exited
    /\ \E first_rc, last_rc \in ExitCodes, leave \in BOOLEAN :
         /\ <<1, first_rc>> \in exited
         /\ <<Len(current), last_rc>> \in exited
         /\ todo' = IF script = "assembly"
                    THEN IF Failed(ShellPipeStatus(first_rc, last_rc)) THEN <<>> ELSE todo
                    ELSE IF leave THEN <<>> ELSE todo
    /\ current' = <<>>
    /\ exited' = {}
    /\ UNCHANGED <<script, running, issued>>
    /\ UNCHANGED outsideProc

\* ======================================================================
\* Two runs of the candidate loop of assembly.py on the same input
\* ======================================================================

\* A candidate list and, for each index prefix, the rate its log reports
\* whenever the aligner is run on it.
SelInputs(n) ==
    {[refs |-> c, rate |-> f] : c \in Candidates(n), f \in [1..n -> 0..MaxRate]}

\* A run before its loop: best_ref = None, best_rate = -1.0.
RunStart == [order |-> <<>>, i |-> 0, best_ref |-> 0, best_rate |-> -1]

InitSel ==
    /\ sel_in \in UNION {SelInputs(n) : n \in 1..MaxRefs}
    /\ sel_run = [r \in 1..2 |-> RunStart]

\* The candidates taken in whatever order a set of them comes out.
IterAnyOrder(refs) ==
    {[k \in DOMAIN refs |-> refs[o[k]]] : o \in Orders(DOMAIN refs)}

\* for ref_prefix in args.references: the list is walked in its own order.
IterOrder(refs) == {refs}

\* A run enters its loop.
SelBegin ==
    /\ \E r \in DOMAIN sel_run, o \in IterOrder(sel_in.refs) :
         /\ sel_run[r].i = 0
         /\ sel_run' = [sel_run EXCEPT ![r] = [@ EXCEPT !.order = o, !.i = 1]]
    /\ UNCHANGED sel_in
    /\ UNCHANGED outsideSel

\* One iteration of the loop in one of the runs, the log being the one the
\* aligner gives for this prefix.
SelScore ==
    /\ \E r \in DOMAIN sel_run :
         LET run == sel_run[r]
         IN  /\ run.i \in 1..Len(run.order)
             /\ LET ref_prefix == StripBt2(run.order[run.i])
                    log == [marker |-> TRUE, leading |-> TRUE,
                            rate |-> sel_in.rate[ref_prefix]]
                    alignment_rate == ParseRate(log)
                IN  sel_run' =
                      [sel_run EXCEPT ![r] =
                         IF Better(alignment_rate, run.best_rate)
                         THEN [run EXCEPT !.i = run.i + 1,
                                          !.best_rate = alignment_rate,
                                          !.best_ref = ref_prefix]
                         ELSE [run EXCEPT !.i = run.i + 1]]
    /\ UNCHANGED sel_in
    /\ UNCHANGED outsideSel

\* ======================================================================
\* range_http_server.py and serve_range.py: send_head for one request
\* ======================================================================

\* The two sides of the "-" in a Range header: a decimal number, nothing
\* (Empty), or text that int() rejects (Junk).
Empty == 0 - 1
Junk == 0 - 2
Bounds == {Empty, Junk} \cup 0..(MaxSize + 1)

\* The Range headers of a request: none, or "<unit>=<start_s>-<end_s>", or
\* "<unit>=<start_s>" without a "-".
RangeHeaders ==
    {[present |-> FALSE, unit |-> "bytes", dash |-> FALSE, start_s |-> Empty,
      end_s |-> Empty]}
    \cup {[present |-> TRUE, unit |-> u, dash |-> TRUE, start_s |-> a, end_s |-> b] :
            u \in {"bytes", "items"}, a \in Bounds, b \in Bounds}
    \cup {[present |-> TRUE, unit |-> u, dash |-> FALSE, start_s |-> a, end_s |-> Empty] :
            u \in {"bytes", "items"}, a \in Bounds \ {Empty}}

InitRange ==
    /\ size \in 0..MaxSize
    /\ range_header \in RangeHeaders
    /\ rhs_response = NoResponse
    /\ sr_response = NoResponse
    /\ sr_written = -1

\* range_http_server.py lines 34-47: the try block; [ok, start, end], ok
\* FALSE when it raised (start = None).
RhsParse(h, st_size) ==
    LET failed == [ok |-> FALSE, start |-> 0, end |-> 0]
    IN  IF h.unit # "bytes" THEN failed
        ELSE IF ~h.dash THEN failed
        ELSE IF h.start_s = Junk \/ h.end_s = Junk THEN failed
        ELSE LET start == IF h.start_s # Empty THEN h.start_s ELSE 0
                 end == IF h.end_s # Empty THEN h.end_s ELSE st_size - 1
             IN  IF start > end THEN failed
                 ELSE [ok |-> TRUE, start |-> start,
                       end |-> IF end >= st_size THEN st_size - 1 ELSE end]

\* range_http_server.py send_head for a regular file that opens (lines 28-68).
RhsSendHead ==
    /\ rhs_response = NoResponse
    /\ LET parsed == RhsParse(range_header, size)
       IN  rhs_response' =
             IF range_header.present /\ parsed.ok
             THEN [status |-> 206, start |-> parsed.start, end |-> parsed.end,
                   length |-> parsed.end - parsed.start + 1]
             ELSE [status |-> 200, start |-> 0, end |-> size - 1, length |-> size]
    /\ UNCHANGED <<size, range_header, sr_response, sr_written>>
    /\ UNCHANGED outsideRange

\* serve_range.py lines 34-45: start, end = 0, size - 1, then the try block,
\* whose except clause puts both back.
SrParse(h, st_size) ==
    LET whole == [start |-> 0, end |-> st_size - 1]
    IN  IF h.unit # "bytes" \/ ~h.dash THEN whole
        ELSE IF h.start_s = Junk \/ h.end_s = Junk THEN whole
        ELSE [start |-> IF h.start_s # Empty THEN h.start_s ELSE 0,
              end |-> IF h.end_s # Empty THEN h.end_s ELSE st_size - 1]

\* serve_range.py send_head for an existing regular file (lines 27-65).
SrSendHead ==
    /\ sr_response = NoResponse
    /\ LET parsed == SrParse(range_header, size)
       IN  sr_response' =
             IF ~range_header.present
             THEN [status |-> 200, start |-> 0, end |-> size - 1, length |-> size]
             ELSE IF parsed.start > parsed.end \/ parsed.start >= size
             THEN [status |-> 416, start |-> parsed.start, end |-> parsed.end,
                   length |-> 0]
             ELSE [status |-> 206, start |-> parsed.start, end |-> parsed.end,
                   length |-> parsed.end - parsed.start + 1]
    /\ UNCHANGED <<size, range_header, rhs_response, sr_written>>
    /\ UNCHANGED outsideRange

\* The smaller of two numbers.
Min(a, b) == IF a < b THEN a ELSE b

\* serve_range.py copyfile (lines 67-82): from start, up to end - start + 1
\* bytes, ending early when read() comes back empty at the end of the file.
SrCopyfile ==
    /\ sr_response.status \in {200, 206}
    /\ sr_written = -1
    /\ sr_written' =
         IF sr_response.status = 206
         THEN Min(sr_response.end - sr_response.start + 1, size - sr_response.start)
         ELSE size
    /\ UNCHANGED <<size, range_header, rhs_response, sr_response>>
    /\ UNCHANGED outsideRange

\* ======================================================================
\* main.py
\* ======================================================================

\* What a directory argument can be: not given on the command line, a path
\* that does not exist, an empty directory, a directory with entries.
DirArgs == {"unsupplied", "missing", "empty", "ok"}

\* -o/--output: not given, a path that does not exist yet, an existing one.
OutputArgs == {"unsupplied", "absent", "exists"}

\* What subprocess.run can give for a command: returncode is the exit status
\* of the child, or minus the number of the signal that killed it.
ReturnCodes == (0 - MaxCode)..MaxCode

InitMain ==
    /\ mpc = "args"
    /\ margs \in [data : DirArgs, output : OutputArgs, reference : DirArgs,
                  host : DirArgs]
    /\ out_created = FALSE
    /\ copied = FALSE
    /\ spawned = <<>>
    /\ unlock_result = NoResult
    /\ run_result = NoResult
    /\ mexit = -1

\* The driver ends with the given exit status.
MainExit(status) ==
    /\ mpc' = "done"
    /\ mexit' = status

\* parse_arguments (lines 15-24): -d and -o are required, argparse exits with
\* status 2 when one is not given; -r and -t default to None.
MainParseArgs ==
    /\ mpc = "args"
    /\ IF margs.data = "unsupplied" \/ margs.output = "unsupplied"
       THEN MainExit(2)
       ELSE mpc' = "validate" /\ UNCHANGED mexit
    /\ UNCHANGED <<margs, out_created, copied, spawned, unlock_result, run_result>>
    /\ UNCHANGED outsideMain

UsableIfExists(dir) == dir \in {"ok", "empty"}

\* Lines 111-128 for one directory: it exists and os.listdir is not empty.
\* (For None, os.path.exists raises TypeError: the traceback ends the driver
\* with status 1, as sys.exit(1) does for the other two cases.)
Usable(dir) == dir = "ok"

\* Lines 111-128: the three directories are tested in turn.
MainValidate ==
    /\ mpc = "validate"
    /\ IF Usable(margs.data) /\ Usable(margs.reference) /\ Usable(margs.host)
       THEN mpc' = "prepare" /\ UNCHANGED mexit
       ELSE MainExit(1)
    /\ UNCHANGED <<margs, out_created, copied, spawned, unlock_result, run_result>>
    /\ UNCHANGED outsideMain

\* Lines 140-153: the output directory is made when it does not exist and the
\* FASTQ files are copied under it; a copy that fails raises.
MainPrepare ==
    /\ mpc = "prepare"
    /\ out_created' = (margs.output = "absent")
    /\ copied' = TRUE
    /\ \E ok \in BOOLEAN :
         IF ok THEN mpc' = "unlock" /\ UNCHANGED mexit ELSE MainExit(1)
    /\ UNCHANGED <<margs, spawned, unlock_result, run_result>>
    /\ UNCHANGED outsideMain

AfterUnlockChecked(result) == IF result.raised \/ result.code # 0 THEN "done" ELSE "run"

\* Lines 183-186: check=False, and an exception is caught and reported as a
\* warning; main() goes on to the run either way.
AfterUnlock(result) == "run"

\* subprocess.run(unlock_command, check=False) inside try/except.
MainUnlock ==
    /\ mpc = "unlock"
    /\ spawned' = Append(spawned, "unlock")
    /\ \E result \in [raised : {FALSE}, code : ReturnCodes]
                     \cup {[raised |-> TRUE, code |-> 0]} :
         /\ unlock_result' = result
         /\ mpc' = AfterUnlock(result)
    /\ UNCHANGED <<margs, out_created, copied, run_result, mexit>>
    /\ UNCHANGED outsideMain

\* sys.exit(n) for an integer n: the process ends with status n & 0xFF.
ExitStatus(code) == code % 256

\* Lines 188-193: the workflow run; sys.exit(result.returncode) when it is not
\* 0.  When subprocess.run raises (the command cannot be started) the
\* traceback ends the driver with status 1.
MainRun ==
    /\ mpc = "run"
    /\ spawned' = Append(spawned, "run")
    /\ \E result \in [raised : {FALSE}, code : ReturnCodes]
                     \cup {[raised |-> TRUE, code |-> 0]} :
         /\ run_result' = result
         /\ IF result.raised THEN MainExit(1)
            ELSE IF result.code # 0 THEN MainExit(ExitStatus(result.code))
            ELSE MainExit(0)
    /\ UNCHANGED <<margs, out_created, copied, unlock_result>>
    /\ UNCHANGED outsideMain

\* ======================================================================
\* Properties
\* ======================================================================

\* Position of the first occurrence of the largest element of a non-empty
\* sequence of numbers.
FirstMaxIdx(s) ==
    CHOOSE i \in DOMAIN s :
        /\ \A j \in DOMAIN s : s[j] <= s[i]
        /\ \A j \in DOMAIN s : j < i => s[j] < s[i]

SelectionFinished == Len(references) > 0 /\ Len(scored) = Len(references)

\* C1 (tie-break law): when the selection loop has gone through every
\* candidate, best_rate is at least every candidate's rate and best_ref is the
\* first candidate, in the supplied order, whose rate is that maximum.
C1_TieBreak ==
    SelectionFinished =>
        /\ \A k \in DOMAIN scored : best_rate >= scored[k]
        /\ best_rate = scored[FirstMaxIdx(scored)]
        /\ best_ref = StripBt2(references[FirstMaxIdx(scored)])

\* The loop has finished on three candidates, the second and the third tied at
\* the maximum, above the first.
C1_Witness ==
    /\ SelectionFinished
    /\ Len(scored) = 3
    /\ scored[1] < scored[2]
    /\ scored[2] = scored[3]
    /\ best_ref = StripBt2(references[2])

\* The number on the last line of a report that contains marker m, 0 when no
\* line does.
LastTok(lines, m) ==
    LET hits == {i \in DOMAIN lines : m \in lines[i].marks}
    IN  IF hits = {} THEN 0
        ELSE lines[CHOOSE i \in hits : \A j \in hits : j <= i].tok

RECURSIVE SumRemoved(_)
SumRemoved(s) == IF s = <<>> THEN 0 ELSE s[1][2] + SumRemoved(Tail(s))

\* C2 (round accounting): the count logged for a round is the exactly-once
\* count plus the multi count of that round's report, and after every round
\* total_removed is the sum of the counts logged so far.
C2_RoundAccounting ==
    dpc # "idle" =>
        /\ total_removed = SumRemoved(summary)
        /\ summary # <<>> =>
               summary[Len(summary)][2] =
                   LastTok(stderr, "exact") + LastTok(stderr, "multi")

\* Two rounds have been logged; the second report carried both count lines
\* and each round removed something.
C2_Witness ==
    /\ Len(summary) = 2
    /\ summary[1][2] > 0
    /\ summary[2][2] > 0
    /\ \E i \in DOMAIN stderr : "exact" \in stderr[i].marks
    /\ \E i \in DOMAIN stderr : "multi" \in stderr[i].marks
    /\ total_removed = summary[1][2] + summary[2][2]

\* C3 (read-pair conservation): at every point of the depletion loop the
\* pairs removed so far plus the pairs in the current read pair are the pairs
\* of the original input.
C3_ReadConservation ==
    dpc \in {"loop", "gzip", "done"} =>
        /\ total_removed + curr_r1.reads = orig_reads
        /\ total_removed + curr_r2.reads = orig_reads

IsSorted(s) == \A i, j \in DOMAIN s : i < j => s[i] < s[j]

\* C4 (host ordering): the aligner invocations and the summary lines follow
\* the lexicographic order of the discovered index prefixes.
C4_HostOrder ==
    /\ IsSorted(invoked)
    /\ IsSorted([i \in DOMAIN summary |-> summary[i][1]])

\* C5 (short-circuit): once a round has ended without both unmapped files,
\* that round is the last aligner invocation, the loop is over without an
\* error, and the run goes on to the compression; a run that ends normally
\* has written both outputs and has status 0.
C5_ShortCircuit ==
    missing_at # 0 =>
        /\ Len(invoked) = missing_at
        /\ dpc \in {"gzip", "done"} \/ (dpc = "failed" /\ raised_in = "gzip")
        /\ dpc = "gzip" => ENABLED DepFinish
        /\ dpc = "done" => dexit = 0 /\ out_r1.written /\ out_r2.written

\* The first of two hosts ended without both unmapped files and the run is
\* over: the second host was never aligned against.
C5_Witness ==
    /\ missing_at = 1
    /\ Len(host_indexes) = 2
    /\ dpc = "done"
    /\ Len(invoked) = 1

\* C6 (short-circuit output is empty): after a round without unmapped files
\* the current pair is empty and so are the final outputs.
C6_ShortCircuitEmpty ==
    (missing_at # 0 /\ dpc \in {"gzip", "done"}) =>
        /\ curr_r1.reads = 0
        /\ curr_r2.reads = 0
        /\ dpc = "done" => out_r1.reads = 0 /\ out_r2.reads = 0

\* C7 (fatal host-alignment failure): once an aligner run has exited nonzero
\* there is no further round, no compressed output is written, and the run
\* does not end with status 0.
C7_FatalHostFailure ==
    nonzero_at # 0 =>
        /\ Len(invoked) = nonzero_at
        /\ ~out_r1.written
        /\ ~out_r2.written
        /\ dexit # 0

AsmTerminal == pc \in {"done", "failed", "usage"}

\* C8 (no partial publish): when the run has ended, the published directory
\* holds all three artifacts or none of them.
C8_NoPartialPublish ==
    AsmTerminal => assembly_dir \in {{}, {"fasta", "bam", "bai"}}

\* C9 (a failing step aborts the build): once a process of some command has
\* exited nonzero, that command is the last one run and the stage has ended
\* with an error.
C9_FailAborts ==
    tool_fail # 0 =>
        /\ Len(cmds) = tool_fail
        /\ pc = "failed"
        /\ exit_code # 0

\* C10 (scratch cleanup): when a run that created its scratch directory has
\* ended, in success or in any failure, the directory and its files are gone.
C10_ScratchCleaned ==
    pc \in {"done", "failed"} => ~tmp_exists /\ tmp_files = {}

\* A build step failed after the candidates were scored and files were
\* written to the scratch directory.
C10_Witness ==
    /\ pc = "failed"
    /\ SelectionFinished
    /\ tool_fail > Len(references)
    /\ ~tmp_exists


\* A scoring run of the aligner exited nonzero (the scoring commands are the
\* first Len(references) commands of a run).
ScoringFailed == tool_fail # 0 /\ tool_fail <= Len(references)

\* C11 (selector propagates tool failure): once the aligner has exited nonzero
\* for a candidate, the script has ended with an error, that command is the
\* last one issued (no later candidate, no build step), and the selection has
\* not come to report a best reference.
C11_SelectorPropagates ==
    ScoringFailed =>
        /\ pc = "failed"
        /\ exit_code = 1
        /\ Len(cmds) = tool_fail
        /\ Len(scored) = tool_fail - 1
        /\ ~SelectionFinished

\* The aligner failed on the second of three candidates.
C11_Witness ==
    /\ ScoringFailed
    /\ Len(references) = 3
    /\ tool_fail = 2
    /\ pc = "failed"

\* C12 (lenient rate parsing): a candidate whose log has no rate line is
\* scored 0, the loop goes on past it, and it is not the selected reference
\* when some candidate scored above 0.
C12_LenientRate ==
    \A k \in unmarked :
        /\ k \in DOMAIN scored
        /\ scored[k] = 0
        /\ (SelectionFinished /\ \E j \in DOMAIN scored : scored[j] > 0)
               => best_ref # StripBt2(references[k])

\* The loop has finished; the first candidate's log had no rate line and a
\* later candidate scored above 0.
C12_Witness ==
    /\ SelectionFinished
    /\ 1 \in unmarked
    /\ \E j \in DOMAIN scored : scored[j] > 0

\* C13 (selection result is defined): after the loop over a non-empty list
\* best_ref is one of the supplied candidates, also when every candidate
\* scored 0; an empty list is rejected before any command is run and is the
\* only case that leaves best_ref undefined.
C13_SelectionDefined ==
    /\ SelectionFinished =>
           /\ best_ref # 0
           /\ \E k \in DOMAIN references : best_ref = StripBt2(references[k])
    /\ Len(references) = 0 =>
           /\ pc \in {"args", "usage"}
           /\ cmds = <<>>
           /\ best_ref = 0

\* The loop has finished on two or more candidates that all scored 0.
C13_Witness ==
    /\ SelectionFinished
    /\ Len(scored) >= 2
    /\ \A k \in DOMAIN scored : scored[k] = 0
    /\ best_ref = StripBt2(references[1])

\* C14 (the summary is an ordered append-only log): the file is created once,
\* by the start; its entries are the rounds logged so far, one entry
\* <<host, removed count>> per round in processing order (when an exception
\* ended a round before its entry was written, that round has none); and a
\* step after the start leaves the file alone or adds one entry at its end.
C14_SummaryAppendOnly ==
    /\ [](/\ summary_opens = (IF dpc \in {"idle", "start"} THEN 0 ELSE 1)
          /\ Len(summary) = (IF raised_in = "parse" THEN Len(invoked) - 1 ELSE Len(invoked))
          /\ \A j \in DOMAIN summary :
               /\ summary[j][1] = invoked[j]
               /\ summary[j][1] = host_indexes[j]
               /\ summary[j][2] \in Nat)
    /\ [][dpc # "start" =>
            \/ summary' = summary
            \/ /\ Len(summary') = Len(summary) + 1
               /\ SubSeq(summary', 1, Len(summary)) = summary]_vars

\* Two rounds were logged and the run has ended normally.
C14_Witness ==
    /\ dpc = "done"
    /\ Len(summary) = 2
    /\ summary_opens = 1
    /\ summary[1][1] # summary[2][1]

C16_MissingInputBeforeTools ==
    /\ ~reads_present => cmds = <<>>
    /\ ~inputs_present => invoked = <<>>

\* C17 as stated (one external invocation at a time): at most one external
\* tool process is running at any moment.
C17_OneProcess == Cardinality(running) <= 1

\* C17 (one external invocation at a time, amended): the processes alive all
\* belong to the one command the script is waiting for, so a command starts
\* only after the previous one has ended; more than one process is alive only
\* while the command is the mpileup | call pipeline, whose two tools run side
\* by side.
C17_OneInvocation ==
    /\ \A p \in running : p[1] = issued
    /\ running # {} => current # <<>>
    /\ Cardinality(running) <= Len(current)
    /\ Cardinality(running) > 1 => current = PipeCmd /\ script = "assembly"

\* Both tools of the pipeline are running, after earlier commands have come
\* and gone.
C17_Witness ==
    /\ Cardinality(running) = 2
    /\ current = PipeCmd
    /\ issued > 1

\* A run of the candidate loop is over.
RunOver(r) == sel_run[r].i = Len(sel_in.refs) + 1

Count(seq, cmd) == Cardinality({i \in DOMAIN seq : seq[i] = cmd})

BuildCmds ==
    {"bowtie2", "samtools view", "samtools sort", "samtools index",
     "bcftools mpileup | bcftools call", "bcftools index", "bcftools consensus"}

\* C19 (no automatic retry): each build command is issued at most once, each
\* candidate's scoring alignment is issued once (while the loop runs, one per
\* candidate already passed; never more than there are candidates), and no
\* host is aligned against twice.
C19_NoRetry ==
    /\ \A cmd \in BuildCmds : Count(cmds, cmd) <= 1
    /\ Count(cmds, "bowtie2_score") <= Len(references)
    /\ pc = "select" => Count(cmds, "bowtie2_score") = ref_i - 1
    /\ pc = "failed" => Count(cmds, "bowtie2_score") <= ref_i
    /\ Len(invoked) <= Len(host_indexes)
    /\ \A i, j \in DOMAIN invoked : i # j => invoked[i] # invoked[j]

\* The scoring alignment of the second candidate exited nonzero: the run is
\* over with two scoring commands issued.
C19_Witness ==
    /\ pc = "failed"
    /\ tool_fail = 2
    /\ Len(references) > 2
    /\ cmds = <<"bowtie2_score", "bowtie2_score">>

\* C20 (depletion scratch discipline): the work directory exists whenever an
\* aligner is about to be invoked and as long as a run that has invoked one
\* goes on, and it is gone when the run has ended, normally or by an
\* exception.
C20_DepScratch ==
    /\ dpc \in {"loop", "gzip"} => work_exists
    /\ dpc \in {"done", "failed"} => ~work_exists

\* A run ended by an exception in its second round, after the work directory
\* had been filled.
C20_Witness ==
    /\ dpc = "failed"
    /\ raised_in \in {"parse", "move"}
    /\ Len(invoked) = 2
    /\ ~work_exists

\* The build commands in the order main() issues them (lines 77-101).
BuildOrder ==
    <<"bowtie2", "samtools view", "samtools sort", "samtools index",
      "bcftools mpileup | bcftools call", "bcftools index", "bcftools consensus">>

\* The commands of a whole run over n candidates.
FullRun(n) == [k \in 1..n |-> "bowtie2_score"] \o BuildOrder

\* C21 (consensus pipeline order): the commands issued so far are always a
\* prefix of one scoring alignment per candidate followed by the build
\* commands in their order, every command but the latest returned status 0,
\* the build starts only when all candidates were scored, and the sorted BAM
\* and its index are copied, in that order, only after all build commands;
\* a successful run has issued them all, with one aligner run more than
\* there are candidates.
C21_PipelineOrder ==
    /\ Len(cmds) <= Len(FullRun(Len(references)))
    /\ cmds = SubSeq(FullRun(Len(references)), 1, Len(cmds))
    /\ Len(statuses) = Len(cmds)
    /\ \A k \in DOMAIN statuses : k < Len(cmds) => statuses[k] = 0
    /\ (pc \in {"copy_bam", "copy_bai", "done"}) =>
           /\ cmds = FullRun(Len(references))
           /\ statuses[Len(statuses)] = 0
    /\ "bam" \in assembly_dir => pc \in {"copy_bai", "done", "failed"}
    /\ "bai" \in assembly_dir => pc = "done" /\ "bam" \in assembly_dir
    /\ pc = "done" =>
           Count(cmds, "bowtie2_score") + Count(cmds, "bowtie2") = Len(references) + 1

\* A run over three candidates ended successfully.
C21_Witness ==
    /\ pc = "done"
    /\ exit_code = 0
    /\ Len(references) = 3
    /\ Len(cmds) = 10
    /\ assembly_dir = {"fasta", "bam", "bai"}

\* C22 (read-pair threading): whenever the aligner is about to be run for
\* round k, both current files are the unmapped output of round k - 1, and
\* for round 1 the copy of the original input with all its pairs; no step
\* changes the original input.
C22_PairThreading ==
    /\ [](dpc = "loop" =>
            /\ curr_r1.round = host_i - 1
            /\ curr_r2.round = host_i - 1
            /\ Len(invoked) = host_i - 1
            /\ host_i = 1 => curr_r1.reads = orig_reads /\ curr_r2.reads = orig_reads)
    /\ [][orig_reads' = orig_reads]_vars

\* The second round is about to run on what the first round left unmapped.
C22_Witness ==
    /\ dpc = "loop"
    /\ host_i = 2
    /\ curr_r1.round = 1
    /\ curr_r1.reads < orig_reads
    /\ orig_reads = MaxReads

\* C23 (report parsing extracts the first numeric token): every line that
\* carries a marker phrase parses, wherever its number stands, so neither
\* script ends in its parse: a selection that failed while scoring failed on
\* a nonzero status of the aligner, and no depletion round raises in the
\* parse of its report.
C23_FirstNumericToken ==
    /\ (pc = "failed" /\ cmds # <<>> /\ Len(cmds) <= Len(references)) =>
           statuses[Len(cmds)] # 0
    /\ raised_in # "parse"

\* Whether some line of a report carries the marker phrase.
HasLine(lines, m) == \E i \in DOMAIN lines : m \in lines[i].marks

\* C24 (lenient report parsing in depletion): when the report of the round
\* logged last lacks a count line, that count is zero for the round whatever
\* earlier rounds counted, the removed count logged is the sum of the counts
\* that were found, and the round has been logged and accounted (the run went
\* on past the parse).
C24_LenientDepletionParse ==
    (summary # <<>> /\ (~HasLine(stderr, "exact") \/ ~HasLine(stderr, "multi"))) =>
        LET removed == summary[Len(summary)][2]
        IN  /\ (~HasLine(stderr, "exact") /\ ~HasLine(stderr, "multi")) => removed = 0
            /\ (~HasLine(stderr, "exact") /\ HasLine(stderr, "multi")) =>
                   removed = LastTok(stderr, "multi")
            /\ (HasLine(stderr, "exact") /\ ~HasLine(stderr, "multi")) =>
                   removed = LastTok(stderr, "exact")
            /\ total_removed = SumRemoved(summary)
            /\ Len(summary) >= Len(invoked) - 1

\* The first round removed pairs; the report of the second round had neither
\* count line, the round was logged with 0 and the run ended normally.
C24_Witness ==
    /\ dpc = "done"
    /\ Len(summary) = 2
    /\ summary[1][2] > 0
    /\ summary[2][2] = 0
    /\ ~HasLine(stderr, "exact")
    /\ ~HasLine(stderr, "multi")

C26_PairOfOneRound ==
    /\ dpc \in {"loop", "gzip", "done"} => curr_r1 = curr_r2
    /\ (Cardinality(unmapped) = 1 /\ raised_in \notin {"run", "parse"}) =>
           /\ missing_at = Len(invoked)
           /\ curr_r1.round = missing_at - 1
           /\ curr_r2.round = missing_at - 1
           /\ dpc # "loop"

\* The second round left only the unmapped file of mate 1; the pair of round
\* 1 was compressed.
C26_Witness ==
    /\ unmapped = {1}
    /\ missing_at = 2
    /\ curr_r1.round = 1
    /\ curr_r2.round = 1
    /\ dpc = "done"

\* C27 (range_http_server.py sends only satisfiable ranges): a 206 response
\* for a file that is not empty has 0 <= start <= end <= size - 1 and a
\* Content-Length of end - start + 1 >= 1.
C27_SatisfiableRange ==
    (rhs_response.status = 206 /\ size > 0) =>
        /\ 0 <= rhs_response.start
        /\ rhs_response.start <= rhs_response.end
        /\ rhs_response.end <= size - 1
        /\ rhs_response.length = rhs_response.end - rhs_response.start + 1
        /\ rhs_response.length >= 1

\* C28 (serve_range.py advertises what it sends): for a 206 response the end
\* of Content-Range is within the file and copyfile writes as many bytes as
\* Content-Length says.
C28_LengthMatchesBody ==
    (sr_response.status = 206 /\ sr_written # -1) =>
        /\ sr_response.end <= size - 1
        /\ sr_written = sr_response.length

\* The workflow run was started and returned.
RunReturned == mpc = "done" /\ Len(spawned) = 2 /\ ~run_result.raised

\* C29 as stated (driver exit status): when the workflow run has returned,
\* the driver's exit status is the workflow's return code.
C29_ExitIsReturnCode ==
    RunReturned => mexit = run_result.code

\* C29 (unlock, then run, amended): the subprocesses started are the unlock
\* and then the run; once the unlock was started the run is started whatever
\* the unlock gave (a return code or an exception); and when the run has
\* returned, the exit status is nonzero exactly when its return code is, and
\* is that return code, taken modulo 256 when it is negative (the workflow
\* was killed by a signal).
C29_UnlockThenRun ==
    /\ spawned \in {<<>>, <<"unlock">>, <<"unlock", "run">>}
    /\ spawned = <<"unlock">> => mpc = "run" /\ ENABLED MainRun
    /\ RunReturned =>
           /\ (mexit # 0) <=> (run_result.code # 0)
           /\ run_result.code >= 0 => mexit = run_result.code
           /\ run_result.code < 0 => mexit = run_result.code + 256

\* The unlock raised, the run was killed by a signal, and the driver ended
\* with a nonzero status.
C29_Witness ==
    /\ RunReturned
    /\ unlock_result.raised
    /\ run_result.code < 0
    /\ mexit > 0

\* One of the three input directories does not pass the driver's tests.
InputsRejected ==
    \E dir \in {margs.data, margs.reference, margs.host} : dir # "ok"

\* Nothing was created, copied or started.
NoSideEffect == ~out_created /\ ~copied /\ spawned = <<>>

\* C30 as stated (inputs are validated first): when the data, reference or
\* host directory is missing, empty or not supplied, the driver ends with
\* status 1 and without a side effect.
C30_RejectsWithStatusOne ==
    (mpc \notin {"idle", "args", "validate"} /\ InputsRejected) =>
        /\ mpc = "done"
        /\ mexit = 1
        /\ NoSideEffect

\* C30 (inputs are validated first, amended): when the data, reference or
\* host directory is missing, empty or not supplied, the driver ends without
\* a side effect, with status 2 (from the argument parser) when the data or
\* the output directory was not supplied and with status 1 otherwise; and it
\* has no side effect at all before the tests are passed.
C30_ValidatesFirst ==
    /\ (mpc \notin {"idle", "args", "validate"} /\ InputsRejected) =>
           /\ mpc = "done"
           /\ mexit = (IF "unsupplied" \in {margs.data, margs.output} THEN 2 ELSE 1)
           /\ NoSideEffect
    /\ mpc \in {"idle", "args", "validate"} => NoSideEffect

\* Data and reference are in order, the host directory is empty: the driver
\* has ended with status 1 and nothing was touched.
C30_Witness ==
    /\ mpc = "done"
    /\ margs.data = "ok"
    /\ margs.reference = "ok"
    /\ margs.host = "empty"
    /\ margs.output = "absent"
    /\ mexit = 1
    /\ NoSideEffect

InitAsm == InitAsmVars /\ InitDepIdle /\ InitOthersIdle

NextAsm ==
    \/ AsmParseArgs
    \/ AsmScore
    \/ AsmRealign
    \/ AsmView
    \/ AsmSort
    \/ AsmIndex
    \/ AsmPileupCall
    \/ AsmIndexVcf
    \/ AsmConsensus
    \/ AsmCopyBam
    \/ AsmCopyBai

SpecAsm == InitAsm /\ [][NextAsm]_vars

NextDep ==
    \/ DepStart
    \/ DepRound
    \/ DepRoundRaises
    \/ DepFinish
    \/ DepFinishRaises

SpecDep == InitDep /\ [][NextDep]_vars

\* Either script, one run.
Init == InitAsm \/ InitDep

Next ==
    \/ AsmParseArgs
    \/ AsmScore
    \/ AsmRealign
    \/ AsmView
    \/ AsmSort
    \/ AsmIndex
    \/ AsmPileupCall
    \/ AsmIndexVcf
    \/ AsmConsensus
    \/ AsmCopyBam
    \/ AsmCopyBai
    \/ DepStart
    \/ DepRound
    \/ DepRoundRaises
    \/ DepFinish
    \/ DepFinishRaises

Spec == Init /\ [][Next]_vars

InitProcs ==
    InitProc /\ InitAsmIdle /\ InitDepIdle /\ InitSelIdle /\ InitRangeIdle /\ InitMainIdle

NextProc == ProcSpawn \/ ProcExit \/ ProcReturn

SpecProc == InitProcs /\ [][NextProc]_vars

InitSelRuns ==
    InitSel /\ InitAsmIdle /\ InitDepIdle /\ InitProcIdle /\ InitRangeIdle /\ InitMainIdle

NextSel == SelBegin \/ SelScore

SpecSel == InitSelRuns /\ [][NextSel]_vars

InitRanges ==
    InitRange /\ InitAsmIdle /\ InitDepIdle /\ InitProcIdle /\ InitSelIdle /\ InitMainIdle

NextRange == RhsSendHead \/ SrSendHead \/ SrCopyfile

SpecRange == InitRanges /\ [][NextRange]_vars

InitDriver ==
    InitMain /\ InitAsmIdle /\ InitDepIdle /\ InitProcIdle /\ InitSelIdle /\ InitRangeIdle

NextMain == MainParseArgs \/ MainValidate \/ MainPrepare \/ MainUnlock \/ MainRun

SpecMain == InitDriver /\ [][NextMain]_vars
====
